---- MODULE Spec2Model ----
(***************************************************************************)
(* Model of the VoiceAgent component (src/CONTRIBUTING.md, lines 176-623): *)
(* the session state driven by the voice transport's events, the transcript *)
(* merge rule, and the deduplication run at call end.                       *)
(*                                                                           *)
(* Texts are sequences of one-character strings, so that trimming, lower-   *)
(* casing and the character filter of the normalisation are computed and    *)
(* not assumed.                                                              *)
(***************************************************************************)
EXTENDS Naturals, Integers, Sequences, FiniteSets

(***************************************************************************)
(* Program constants.                                                       *)
(***************************************************************************)
\* Date.now() - lastMessage.timestamp < 3000
MergeWindow == 3000
\* setTimeout(..., 3000) in the call-end handler
EndDelay == 3000

(***************************************************************************)
(* Bounds of the model.                                                     *)
(***************************************************************************)
\* the clock does not advance past this instant: under SpecFragments
MaxNow == 5999
\* and under Spec
MaxSessionNow == 3000
\* a fragment that would make the transcript longer than this is not
\* delivered: under SpecFragments
MaxLen == 3
\* and under Spec
MaxSessionLen == 2
\* startCall invocations suspended at `await vapi.start` at the same time
MaxPending == 1
\* the count of fragments of a run saturates here
MaxRun == 3
\* longest transcript handed to the deduplication under SpecDedup
MaxDedupLen == 3
\* fetches of the call-end handler in flight at once
MaxInFlight == 2
\* utterances of a call whose transcript is relayed
MaxRelayLen == 2
\* a fragment that would make the transcript longer is not delivered under
\* SpecLive
MaxLiveLen == 1
\* digits of the longest number handed to the normalisation
MaxDigits == 16
\* the call-end timers pending at once, where call-ends may come in any order
MaxTimers == 2

(***************************************************************************)
(* Characters and strings.                                                  *)
(***************************************************************************)
\* String.prototype.trim and the regular expression's \s agree on these
WhiteSpace == {" ", "\t"}

AsciiLower ==
    {"a","b","c","d","e","f","g","h","i","j","k","l","m",
     "n","o","p","q","r","s","t","u","v","w","x","y","z"}

AsciiDigit == {"0","1","2","3","4","5","6","7","8","9"}

\* String.prototype.toLowerCase on one character (the upper-case letters
\* the model's texts use; every other character is its own lower case)
LowerChar(c) ==
    CASE c = "H" -> "h"
      [] c = "I" -> "i"
      [] c = "É" -> "é"
      [] OTHER -> c

toLowerCase(s) == [i \in 1..Len(s) |-> LowerChar(s[i])]

\* s.replace(/[^a-z0-9\s]/g, '')
StripNonAlnum(s) == SelectSeq(s, LAMBDA c : c \in AsciiLower \cup AsciiDigit \cup WhiteSpace)

RECURSIVE TrimStart(_)
TrimStart(s) ==
    IF s # <<>> /\ Head(s) \in WhiteSpace THEN TrimStart(Tail(s)) ELSE s

RECURSIVE TrimEnd(_)
TrimEnd(s) ==
    IF s # <<>> /\ s[Len(s)] \in WhiteSpace
    THEN TrimEnd(SubSeq(s, 1, Len(s) - 1))
    ELSE s

\* a trim that knows the space only
RECURSIVE trim_SpacesOnly(_)
trim_SpacesOnly(s) ==
    IF s # <<>> /\ Head(s) = " " THEN trim_SpacesOnly(Tail(s))
    ELSE IF s # <<>> /\ s[Len(s)] = " "
         THEN trim_SpacesOnly(SubSeq(s, 1, Len(s) - 1))
         ELSE s

\* String.prototype.trim
trim(s) == TrimEnd(TrimStart(s))

(***************************************************************************)
(* deduplicateTranscript                                                    *)
(***************************************************************************)
\* message.text.toLowerCase().replace(/[^a-z0-9\s]/g, '').trim()
normalizedText(text) == trim(StripNonAlnum(toLowerCase(text)))

\* `${message.role}|${normalizedText}`
key(message) == <<message.role, normalizedText(message.text)>>

\* a loop that lets a later duplicate replace what it kept (last occurrence wins)
RECURSIVE dedupLoop_LastWins(_, _, _)
dedupLoop_LastWins(messages, seenKeys, uniqueMessages) ==
    IF messages = <<>> THEN uniqueMessages
    ELSE LET message == Head(messages)
         IN  dedupLoop_LastWins(
                 Tail(messages), seenKeys,
                 Append(SelectSeq(uniqueMessages, LAMBDA m : key(m) # key(message)),
                        message))

RECURSIVE dedupLoop(_, _, _)
dedupLoop(messages, seenKeys, uniqueMessages) ==
    IF messages = <<>> THEN uniqueMessages
    ELSE LET message == Head(messages)
         IN  IF key(message) \in seenKeys
             THEN dedupLoop(Tail(messages), seenKeys, uniqueMessages)
             ELSE dedupLoop(Tail(messages), seenKeys \cup {key(message)},
                            Append(uniqueMessages, message))

\* a loop that stops one message short: for (i = 0; i < messages.length - 1; i++)
deduplicateTranscript_OffByOne(messages) ==
    IF messages = <<>> THEN <<>>
    ELSE dedupLoop(SubSeq(messages, 1, Len(messages) - 1), {}, <<>>)

deduplicateTranscript(messages) == dedupLoop(messages, {}, <<>>)

(***************************************************************************)
(* The session.                                                             *)
(***************************************************************************)
VARIABLES
    isConnected,        \* useState(false)
    isSpeaking,         \* useState(false)
    isListening,        \* useState(false)
    transcript,         \* useState<TranscriptMessage[]>([])
    error,              \* useState<string | null>(null)
    callEnded,          \* useState(false)
    transcriptRef,      \* useRef<TranscriptMessage[]>([])
    callStartedAtRef,   \* useRef<number | null>(null): <<>> is null, <<t>> a time
    now,                \* Date.now()
    call,               \* the transport: "none", "starting" or "active"
    starting,           \* startCall invocations suspended at `await vapi.start`
    timers,             \* pending setTimeout callbacks of call-end, by due time
    last,               \* history: the handler that ran last and what it saw
    run,                \* history: the current run of same-role fragments
    posts,              \* bodies of the fetch("/api/transcripts") calls in flight
    env,                \* the server's VAPI_API_KEY and N8N_WEBHOOK_URL
    srv                 \* the server's handling of one request

session == <<isConnected, isSpeaking, isListening, transcript, error, callEnded,
             transcriptRef, callStartedAtRef>>

vars == <<isConnected, isSpeaking, isListening, transcript, error, callEnded,
          transcriptRef, callStartedAtRef, now, call, starting, timers,
          last, run, posts, env, srv>>

Roles == {"user", "assistant"}

\* message.transcript as delivered: empty, blank, and two utterances, one of
\* them with surrounding white space
RawTexts ==
    { <<>>,
      <<" ", "\t">>,
      <<"H", "i", "!">>,
      <<" ", "h", "i", "\t">> }

\* history: the step was none of those that the properties tell apart
Other == [ev |-> "other"]

NoError == "null"
ConnectError == "Error connecting to voice assistant. Please try again."
StartError == "Failed to start voice call. Please check your permissions."

Last(s) == s[Len(s)]

\* an updater that appends to the merged text instead of replacing it
mergeOrAppend_Concat(prev, role, text, t) ==
    IF /\ prev # <<>>
       /\ Last(prev).role = role
       /\ t - Last(prev).timestamp < MergeWindow
    THEN [prev EXCEPT ![Len(prev)] =
             [text |-> Last(prev).text \o text, role |-> role, timestamp |-> t]]
    ELSE Append(prev, [text |-> text, role |-> role, timestamp |-> t])

\* an updater whose window includes its end: <= 3000
mergeOrAppend_Inclusive(prev, role, text, t) ==
    IF /\ prev # <<>>
       /\ Last(prev).role = role
       /\ t - Last(prev).timestamp <= MergeWindow
    THEN [prev EXCEPT ![Len(prev)] = [text |-> text, role |-> role, timestamp |-> t]]
    ELSE Append(prev, [text |-> text, role |-> role, timestamp |-> t])

\* an updater that writes the merged message to the first place
mergeOrAppend_FirstPlace(prev, role, text, t) ==
    IF /\ prev # <<>>
       /\ Last(prev).role = role
       /\ t - Last(prev).timestamp < MergeWindow
    THEN [prev EXCEPT ![1] = [text |-> text, role |-> role, timestamp |-> t]]
    ELSE Append(prev, [text |-> text, role |-> role, timestamp |-> t])

\* an updater that does not compare the roles
mergeOrAppend_AnyRole(prev, role, text, t) ==
    IF /\ prev # <<>>
       /\ t - Last(prev).timestamp < MergeWindow
    THEN [prev EXCEPT ![Len(prev)] = [text |-> text, role |-> role, timestamp |-> t]]
    ELSE Append(prev, [text |-> text, role |-> role, timestamp |-> t])

\* an updater whose window is a millisecond shorter
mergeOrAppend_ShortWindow(prev, role, text, t) ==
    IF /\ prev # <<>>
       /\ Last(prev).role = role
       /\ t - Last(prev).timestamp < MergeWindow - 1
    THEN [prev EXCEPT ![Len(prev)] = [text |-> text, role |-> role, timestamp |-> t]]
    ELSE Append(prev, [text |-> text, role |-> role, timestamp |-> t])

\* the updater passed to setTranscript in the message handler
mergeOrAppend(prev, role, text, t) ==
    IF /\ prev # <<>>
       /\ Last(prev).role = role
       /\ t - Last(prev).timestamp < MergeWindow
    THEN [prev EXCEPT ![Len(prev)] = [text |-> text, role |-> role, timestamp |-> t]]
    ELSE Append(prev, [text |-> text, role |-> role, timestamp |-> t])

\* vapiInstance.stop(): a call being set up is abandoned; a call in progress
\* is left by the transport, which reports it with a call-end event
stop(c) == IF c = "starting" THEN "none" ELSE c

Min(a, b) == IF a <= b THEN a ELSE b

\* history: no fragment has arrived since the transcript was cleared
NoRun == [n |-> 0, text |-> <<>>, role |-> "", at |-> 0, base |-> 0]

\* history: the run after a fragment with this role and trimmed text arrives
\* at t. A fragment continues the run when it has the run's role and comes
\* less than MergeWindow after the run's previous fragment; any other fragment
\* starts a run behind the messages the transcript holds so far.
runAfter(r, prevLen, role, text, t) ==
    IF r.n > 0 /\ r.role = role /\ t - r.at < MergeWindow
    THEN [r EXCEPT !.n = Min(r.n + 1, MaxRun), !.text = text, !.at = t]
    ELSE [n |-> 1, text |-> text, role |-> role, at |-> t, base |-> prevLen]

(***************************************************************************)
(* The server (src/server/index.ts). A JSON value is a record of its type   *)
(* t and its content v: a string's content is a sequence of characters for  *)
(* a text or a phone number and a TLA+ string for a role, an identifier or  *)
(* a name; an array's is a sequence of values; an object's is a record of   *)
(* values.                                                                   *)
(***************************************************************************)
JStr(s) == [t |-> "string", v |-> s]
JNum(n) == [t |-> "number", v |-> n]
JArr(a) == [t |-> "array", v |-> a]
JObj(o) == [t |-> "object", v |-> o]

\* the object without its members
NoMembers == [k \in {} |-> JNum(0)]

Has(o, k) == k \in DOMAIN o

\* z.<type>().optional(): the member is absent or of the type
Optional(o, k, type) == Has(o, k) => o[k].t = type

\* what z.object keeps of an object: the members the schema names
Strip(o, keys) == [k \in (DOMAIN o) \cap keys |-> o[k]]

\* null
Null == <<>>

\* raw.replace(/\D/g, "")
Digits(raw) == SelectSeq(raw, LAMBDA c : c \in AsciiDigit)

\* a normalisation that sends ten digits on without the country code
normalizeToE164Like_NoCountryCode(input) ==
    LET raw == trim(input)
        digits == Digits(raw)
    IN  IF raw = <<>> THEN Null
        ELSE IF raw[1] = "+"
        THEN IF digits # <<>> THEN <<"+">> \o digits ELSE Null
        ELSE IF Len(digits) = 11 /\ digits[1] = "1" THEN <<"+">> \o digits
        ELSE IF Len(digits) >= 7 /\ Len(digits) <= 15 THEN <<"+">> \o digits
        ELSE Null

\* normalizeToE164Like(input), with defaultCountryCode = "1"
normalizeToE164Like(input) ==
    LET raw == trim(input)
        digits == Digits(raw)
    IN  IF raw = <<>> THEN Null
        ELSE IF raw[1] = "+"
        THEN IF digits # <<>> THEN <<"+">> \o digits ELSE Null
        ELSE IF Len(digits) = 11 /\ digits[1] = "1" THEN <<"+">> \o digits
        ELSE IF Len(digits) = 10 THEN <<"+", "1">> \o digits
        ELSE IF Len(digits) >= 7 /\ Len(digits) <= 15 THEN <<"+">> \o digits
        ELSE Null

\* OutboundCallSchema.safeParse(body).success
CustomerOk(c) ==
    /\ c.t = "object"
    /\ Has(c.v, "number") /\ c.v.number.t = "string" /\ Len(c.v.number.v) >= 7
    /\ Optional(c.v, "name", "string")

OutboundCallOk(body) ==
    /\ body.t = "object"
    /\ Has(body.v, "phoneNumberId")
    /\ body.v.phoneNumberId.t = "string" /\ body.v.phoneNumberId.v # ""
    /\ Has(body.v, "assistantId")
    /\ body.v.assistantId.t = "string" /\ body.v.assistantId.v # ""
    /\ Has(body.v, "customer") /\ CustomerOk(body.v.customer)

\* the argument of vapi.calls.create, from parsed.data and the normalised
\* number
CreateArgs(body, sanitizedNumber) ==
    JObj([phoneNumberId |-> body.v.phoneNumberId,
          assistantId |-> body.v.assistantId,
          customer |->
              JObj([Strip(body.v.customer.v, {"number", "name"})
                       EXCEPT !.number = JStr(sanitizedNumber)])])

\* TranscriptForwardSchema.safeParse(body).success
EntryOk(e) ==
    /\ e.t = "object"
    /\ Has(e.v, "role") /\ e.v.role.t = "string" /\ e.v.role.v # ""
    /\ Has(e.v, "text") /\ e.v.text.t = "string" /\ e.v.text.v # <<>>
    /\ Has(e.v, "timestamp") /\ e.v.timestamp.t = "number"

\* a schema whose transcript may be empty
TranscriptForwardOk_AllowEmpty(body) ==
    /\ body.t = "object"
    /\ Optional(body.v, "callId", "string")
    /\ Optional(body.v, "assistantId", "string")
    /\ Optional(body.v, "startedAt", "number")
    /\ Optional(body.v, "endedAt", "number")
    /\ Has(body.v, "transcript") /\ body.v.transcript.t = "array"
    /\ \A i \in 1..Len(body.v.transcript.v) : EntryOk(body.v.transcript.v[i])
    /\ Optional(body.v, "metadata", "object")

TranscriptForwardOk(body) ==
    /\ body.t = "object"
    /\ Optional(body.v, "callId", "string")
    /\ Optional(body.v, "assistantId", "string")
    /\ Optional(body.v, "startedAt", "number")
    /\ Optional(body.v, "endedAt", "number")
    /\ Has(body.v, "transcript") /\ body.v.transcript.t = "array"
    /\ \A i \in 1..Len(body.v.transcript.v) : EntryOk(body.v.transcript.v[i])
    /\ Len(body.v.transcript.v) >= 1
    /\ Optional(body.v, "metadata", "object")

\* parsed.data of a body that TranscriptForwardSchema accepts
TranscriptForwardData(body) ==
    LET entries == body.v.transcript.v
        kept == Strip(body.v, {"callId", "assistantId", "startedAt", "endedAt",
                               "transcript", "metadata"})
    IN  JObj([kept EXCEPT !.transcript =
                 JArr([i \in 1..Len(entries) |->
                          JObj(Strip(entries[i].v, {"role", "text", "timestamp"}))])])

\* JSON.stringify(payload) of the call-end handler, as the server's
\* express.json reads it: an undefined startedAt is left out
MessageJSON(m) ==
    JObj([text |-> JStr(m.text), role |-> JStr(m.role), timestamp |-> JNum(m.timestamp)])

PayloadJSON(finalTranscript, startedAt, endedAt, assistantId) ==
    LET entries == JArr([i \in 1..Len(finalTranscript) |-> MessageJSON(finalTranscript[i])])
    IN  IF startedAt = Null
        THEN JObj([transcript |-> entries,
                   assistantId |-> JStr(assistantId),
                   endedAt |-> JNum(endedAt)])
        ELSE JObj([transcript |-> entries,
                   assistantId |-> JStr(assistantId),
                   startedAt |-> JNum(startedAt[1]),
                   endedAt |-> JNum(endedAt)])

\* the assistantId prop of the component
AssistantId == "assistant-1"

\* an HTTP request as express.json leaves it: a parsed body, or a body that
\* is not JSON or is larger than the limit, which goes to the error handler
Parsed(body) == [body |-> body, kind |-> "json"]
Unparsed(kind) == [body |-> JObj(NoMembers), kind |-> kind]

NoRequest == Unparsed("none")

\* the server between two requests
Idle == [pc |-> "idle", route |-> "", req |-> NoRequest, upstream |-> <<>>, res |-> <<>>]

\* res.status(status).json(body), after the requests in sent went upstream
Responded(sent, status, body) ==
    [srv EXCEPT !.pc = "done", !.upstream = sent,
                !.res = Append(srv.res, [body |-> body, status |-> status])]

\* the handler waits for the answer to the request it sent upstream
Awaiting(sent) == [srv EXCEPT !.pc = "awaiting", !.upstream = <<sent>>]

Init ==
    /\ isConnected = FALSE
    /\ isSpeaking = FALSE
    /\ isListening = FALSE
    /\ transcript = <<>>
    /\ error = NoError
    /\ callEnded = FALSE
    /\ transcriptRef = <<>>
    /\ callStartedAtRef = <<>>
    /\ now = 0
    /\ call = "none"
    /\ starting = 0
    /\ timers = <<>>
    /\ last = Other
    /\ run = NoRun
    /\ posts = <<>>
    /\ env = [key |-> TRUE, webhook |-> TRUE]
    /\ srv = Idle

\* Date.now() moves on by d between two handlers
Tick(d) ==
    /\ now' = now + d
    /\ last' = Other
    /\ UNCHANGED <<posts, env, srv>>
    /\ UNCHANGED <<session, call, starting, timers, run>>

\* a call-start handler that leaves the overlay as it is
OnCallStart_KeepsOverlay ==
    /\ call = "starting"
    /\ call' = "active"
    /\ isConnected' = TRUE
    /\ error' = NoError
    /\ callEnded' = callEnded
    /\ callStartedAtRef' = <<now>>
    /\ last' = [ev |-> "call-start"]
    /\ UNCHANGED <<posts, env, srv>>
    /\ UNCHANGED <<isSpeaking, isListening, transcript, transcriptRef, now,
                   starting, timers, run>>

\* a call-start handler that does not record the time of the start
OnCallStart_NoStamp ==
    /\ call = "starting"
    /\ call' = "active"
    /\ isConnected' = TRUE
    /\ error' = NoError
    /\ callEnded' = FALSE
    /\ callStartedAtRef' = callStartedAtRef
    /\ last' = [ev |-> "call-start"]
    /\ UNCHANGED <<posts, env, srv>>
    /\ UNCHANGED <<isSpeaking, isListening, transcript, transcriptRef, now,
                   starting, timers, run>>

\* vapiInstance.on("call-start"); the transport reports the start of a call
\* that startCall asked for
OnCallStart ==
    /\ call = "starting"
    /\ call' = "active"
    /\ isConnected' = TRUE
    /\ error' = NoError
    /\ callEnded' = FALSE
    /\ callStartedAtRef' = <<now>>
    /\ last' = [ev |-> "call-start"]
    /\ UNCHANGED <<posts, env, srv>>
    /\ UNCHANGED <<isSpeaking, isListening, transcript, transcriptRef, now,
                   starting, timers, run>>

\* a call-end handler that does not show the overlay
OnCallEnd_NoOverlay ==
    /\ call = "active"
    /\ call' = "none"
    /\ isConnected' = FALSE
    /\ isSpeaking' = FALSE
    /\ isListening' = FALSE
    /\ callEnded' = callEnded
    /\ last' = [ev |-> "call-end",
                payload |-> [transcript |-> deduplicateTranscript(transcriptRef),
                             startedAt |-> callStartedAtRef,
                             endedAt |-> now]]
    /\ callStartedAtRef' = <<>>
    /\ timers' = Append(timers, now + EndDelay)
    /\ posts' = Append(posts, PayloadJSON(deduplicateTranscript(transcriptRef),
                                          callStartedAtRef, now, AssistantId))
    /\ UNCHANGED <<transcript, error, transcriptRef, now, starting, run, env, srv>>

\* vapiInstance.on("call-end"); the transport reports the end of a call in
\* progress
OnCallEnd ==
    /\ call = "active"
    /\ call' = "none"
    /\ isConnected' = FALSE
    /\ isSpeaking' = FALSE
    /\ isListening' = FALSE
    /\ callEnded' = TRUE
    /\ last' = [ev |-> "call-end",
                payload |-> [transcript |-> deduplicateTranscript(transcriptRef),
                             startedAt |-> callStartedAtRef,
                             endedAt |-> now]]
    /\ callStartedAtRef' = <<>>
    /\ timers' = Append(timers, now + EndDelay)
    /\ posts' = Append(posts, PayloadJSON(deduplicateTranscript(transcriptRef),
                                          callStartedAtRef, now, AssistantId))
    /\ UNCHANGED <<transcript, error, transcriptRef, now, starting, run, env, srv>>

\* a timer callback that stops the transport and leaves the overlay shown
OnEndTimer_KeepsOverlay ==
    /\ timers # <<>>
    /\ Head(timers) <= now
    /\ timers' = Tail(timers)
    /\ callEnded' = callEnded
    /\ call' = stop(call)
    /\ last' = [ev |-> "end-timer"]
    /\ UNCHANGED <<posts, env, srv>>
    /\ UNCHANGED <<isConnected, isSpeaking, isListening, transcript, error,
                   transcriptRef, callStartedAtRef, now, starting, run>>

\* the callback of the call-end handler's setTimeout
OnEndTimer ==
    /\ timers # <<>>
    /\ Head(timers) <= now
    /\ timers' = Tail(timers)
    /\ callEnded' = FALSE
    /\ call' = stop(call)
    /\ last' = [ev |-> "end-timer"]
    /\ UNCHANGED <<posts, env, srv>>
    /\ UNCHANGED <<isConnected, isSpeaking, isListening, transcript, error,
                   transcriptRef, callStartedAtRef, now, starting, run>>

\* vapiInstance.on("speech-start")
OnSpeechStart ==
    /\ isSpeaking' = TRUE
    /\ isListening' = FALSE
    /\ last' = Other
    /\ UNCHANGED <<posts, env, srv>>
    /\ UNCHANGED <<isConnected, transcript, error, callEnded, transcriptRef,
                   callStartedAtRef, now, call, starting, timers, run>>

\* vapiInstance.on("speech-end")
OnSpeechEnd ==
    /\ isSpeaking' = FALSE
    /\ isListening' = TRUE
    /\ last' = Other
    /\ UNCHANGED <<posts, env, srv>>
    /\ UNCHANGED <<isConnected, transcript, error, callEnded, transcriptRef,
                   callStartedAtRef, now, call, starting, timers, run>>

\* vapiInstance.on("error")
OnError ==
    /\ error' = ConnectError
    /\ last' = Other
    /\ UNCHANGED <<posts, env, srv>>
    /\ UNCHANGED <<isConnected, isSpeaking, isListening, transcript, callEnded,
                   transcriptRef, callStartedAtRef, now, call, starting, timers,
                   run>>

\* vapiInstance.on("message") for a message of type "transcript" (any other
\* type is ignored); messageTimeoutRef is never assigned, so the
\* clearTimeout branch is dead
OnMessage(role, raw) ==
    LET text == trim(raw)
    IN  /\ last' = [text |-> text, role |-> role, ev |-> "message", raw |-> raw]
        /\ IF text = <<>>
           THEN UNCHANGED <<transcript, run>>
           ELSE /\ transcript' = mergeOrAppend(transcript, role, text, now)
                /\ run' = runAfter(run, Len(transcript), role, text, now)
        /\ UNCHANGED <<posts, env, srv>>
        /\ UNCHANGED <<isConnected, isSpeaking, isListening, error, callEnded,
                       transcriptRef, callStartedAtRef, now, call, starting,
                       timers>>

\* useEffect(() => { transcriptRef.current = transcript }, [transcript]):
\* runs after the render that follows a change of transcript, so a handler
\* can run between the change and the effect
SyncTranscriptRef ==
    /\ transcriptRef # transcript
    /\ transcriptRef' = transcript
    /\ last' = Other
    /\ UNCHANGED <<posts, env, srv>>
    /\ UNCHANGED <<isConnected, isSpeaking, isListening, transcript, error,
                   callEnded, callStartedAtRef, now, call, starting, timers,
                   run>>

\* a startCall that can be called while the overlay is shown
StartCall_Unguarded ==
    /\ ~isConnected
    /\ error' = NoError
    /\ transcript' = <<>>
    /\ transcriptRef' = <<>>
    /\ call' = IF call = "none" THEN "starting" ELSE call
    /\ starting' = starting + 1
    /\ last' = [ev |-> "startCall"]
    /\ run' = NoRun
    /\ UNCHANGED <<posts, env, srv>>
    /\ UNCHANGED <<isConnected, isSpeaking, isListening, callEnded,
                   callStartedAtRef, now, timers>>

\* a startCall that leaves the mirror to the effect of a later render
StartCall_KeepsMirror ==
    /\ ~isConnected /\ ~callEnded
    /\ error' = NoError
    /\ transcript' = <<>>
    /\ transcriptRef' = transcriptRef
    /\ call' = IF call = "none" THEN "starting" ELSE call
    /\ starting' = starting + 1
    /\ last' = [ev |-> "startCall"]
    /\ run' = NoRun
    /\ UNCHANGED <<posts, env, srv>>
    /\ UNCHANGED <<isConnected, isSpeaking, isListening, callEnded,
                   callStartedAtRef, now, timers>>

\* startCall up to `await vapi.start(assistantId)`; the button that calls it
\* is rendered only while !isConnected && !callEnded. It runs in the click
\* event: React 18 renders the updates of a discrete event and runs the
\* effects of that render before the event's task ends, so the mirror is
\* cleared before another handler can run
StartCall ==
    /\ ~isConnected /\ ~callEnded
    /\ error' = NoError
    /\ transcript' = <<>>
    /\ transcriptRef' = <<>>
    /\ call' = IF call = "none" THEN "starting" ELSE call
    /\ starting' = starting + 1
    /\ last' = [ev |-> "startCall"]
    /\ run' = NoRun
    /\ UNCHANGED <<posts, env, srv>>
    /\ UNCHANGED <<isConnected, isSpeaking, isListening, callEnded,
                   callStartedAtRef, now, timers>>

\* startCall after `await vapi.start(assistantId)` resolved
StartResolved ==
    /\ starting > 0
    /\ starting' = starting - 1
    /\ isListening' = TRUE
    /\ last' = Other
    /\ UNCHANGED <<posts, env, srv>>
    /\ UNCHANGED <<isConnected, isSpeaking, transcript, error, callEnded,
                   transcriptRef, callStartedAtRef, now, call, timers, run>>

\* a startCall that sets the listening flag outside its try
StartRejected_SetsListening ==
    /\ starting > 0
    /\ call = "starting"
    /\ starting' = starting - 1
    /\ error' = StartError
    /\ call' = stop(call)
    /\ last' = [ev |-> "start-rejected"]
    /\ UNCHANGED <<posts, env, srv>>
    /\ isListening' = TRUE
    /\ UNCHANGED <<isConnected, isSpeaking, transcript, callEnded,
                   transcriptRef, callStartedAtRef, now, timers, run>>

\* startCall's catch, after `await vapi.start(assistantId)` rejected; the
\* transport rejects a start while the call it was asked for has not started
StartRejected ==
    /\ starting > 0
    /\ call = "starting"
    /\ starting' = starting - 1
    /\ error' = StartError
    /\ call' = stop(call)
    /\ last' = [ev |-> "start-rejected"]
    /\ UNCHANGED <<posts, env, srv>>
    /\ UNCHANGED <<isConnected, isSpeaking, isListening, transcript, callEnded,
                   transcriptRef, callStartedAtRef, now, timers, run>>

\* endCall; its button is rendered in the view shown while
\* isConnected || callEnded
EndCall ==
    /\ isConnected \/ callEnded
    /\ call' = stop(call)
    /\ last' = Other
    /\ UNCHANGED <<posts, env, srv>>
    /\ UNCHANGED <<session, now, starting, timers, run>>

\* the SDK behind vapiInstance moves on its own account: the handlers are
\* registered with no check of the order in which it emits call-start and
\* call-end
TransportMoves(c) ==
    /\ c # call
    /\ call' = c
    /\ last' = Other
    /\ UNCHANGED <<session, now, starting, timers, run, posts, env, srv>>

\* a call-end handler that awaits its fetch and reports a failure
PostSettled_ReportsFailure(ok) ==
    /\ posts # <<>>
    /\ posts' = Tail(posts)
    /\ last' = [ev |-> "post-settled", ok |-> ok]
    /\ error' = IF ok THEN error ELSE ConnectError
    /\ UNCHANGED <<isConnected, isSpeaking, isListening, transcript, callEnded,
                   transcriptRef, callStartedAtRef>>
    /\ UNCHANGED <<now, call, starting, timers, run, env, srv>>

\* the promise of the call-end handler's `void fetch(...)` settles, fulfilled
\* (ok) or rejected: the handler has returned and nothing is chained on the
\* promise
PostSettled(ok) ==
    /\ posts # <<>>
    /\ posts' = Tail(posts)
    /\ last' = [ev |-> "post-settled", ok |-> ok]
    /\ UNCHANGED <<session, now, call, starting, timers, run, env, srv>>

\* a request reaches the server
RequestArrives(route, req) ==
    /\ srv.pc = "idle"
    /\ srv' = [Idle EXCEPT !.pc = "received", !.route = route, !.req = req]
    /\ last' = Other
    /\ UNCHANGED <<session, now, call, starting, timers, run, posts, env>>

\* the request of a fetch("/api/transcripts") of the call-end handler
\* reaches the server
PostArrives ==
    /\ srv.pc = "idle"
    /\ posts # <<>>
    /\ posts' = Tail(posts)
    /\ srv' = [Idle EXCEPT !.pc = "received", !.route = "transcripts",
                           !.req = Parsed(Head(posts))]
    /\ last' = Other
    /\ UNCHANGED <<session, now, call, starting, timers, run, env>>

\* the error handler, for a request whose body express.json could not read;
\* the message is err.message when NODE_ENV is "development"
ErrorHandler ==
    /\ srv.pc = "received"
    /\ srv.req.kind # "json"
    /\ srv' = Responded(<<>>, 500, [error |-> "Internal Server Error"])
    /\ last' = Other
    /\ UNCHANGED <<session, now, call, starting, timers, run, posts, env>>

\* a handler that asks the platform to call the number as it was sent
OutboundCall_RawNumber ==
    LET body == srv.req.body
        sanitizedNumber == normalizeToE164Like(body.v.customer.v.number.v)
    IN  /\ srv.pc = "received" /\ srv.route = "outbound-call"
        /\ srv.req.kind = "json"
        /\ srv' =
             IF ~env.key
             THEN Responded(<<>>, 500, [error |-> "Server not configured for Vapi"])
             ELSE IF ~OutboundCallOk(body)
             THEN Responded(<<>>, 400, [error |-> "Invalid payload"])
             ELSE IF sanitizedNumber = Null
             THEN Responded(<<>>, 400, [error |-> "Invalid customer number"])
             ELSE Awaiting(CreateArgs(body, body.v.customer.v.number.v))
        /\ last' = Other
        /\ UNCHANGED <<session, now, call, starting, timers, run, posts, env>>

\* app.post("/api/vapi/outbound-call") up to `await vapi.calls.create`
OutboundCall ==
    LET body == srv.req.body
        sanitizedNumber == normalizeToE164Like(body.v.customer.v.number.v)
    IN  /\ srv.pc = "received" /\ srv.route = "outbound-call"
        /\ srv.req.kind = "json"
        /\ srv' =
             IF ~env.key
             THEN Responded(<<>>, 500, [error |-> "Server not configured for Vapi"])
             ELSE IF ~OutboundCallOk(body)
             THEN Responded(<<>>, 400, [error |-> "Invalid payload"])
             ELSE IF sanitizedNumber = Null
             THEN Responded(<<>>, 400, [error |-> "Invalid customer number"])
             ELSE Awaiting(CreateArgs(body, sanitizedNumber))
        /\ last' = Other
        /\ UNCHANGED <<session, now, call, starting, timers, run, posts, env>>

\* callResponse.id, or callResponse.results?.[0]?.id
CallId(callResponse) ==
    IF Has(callResponse.v, "id") THEN callResponse.v.id
    ELSE callResponse.v.results.v[1].v.id

\* vapi.calls.create resolved with callResponse
PlatformResolved(callResponse) ==
    /\ srv.pc = "awaiting" /\ srv.route = "outbound-call"
    /\ srv' = Responded(srv.upstream, 201,
                        [call |-> callResponse, id |-> CallId(callResponse)])
    /\ last' = [ev |-> "platform", outcome |-> "resolved"]
    /\ UNCHANGED <<session, now, call, starting, timers, run, posts, env>>

\* vapi.calls.create threw
PlatformRejected ==
    /\ srv.pc = "awaiting" /\ srv.route = "outbound-call"
    /\ srv' = Responded(srv.upstream, 502, [error |-> "Failed to create call"])
    /\ last' = [ev |-> "platform", outcome |-> "rejected"]
    /\ UNCHANGED <<session, now, call, starting, timers, run, posts, env>>

\* app.post("/api/transcripts") up to `await fetch(N8N_WEBHOOK_URL, ...)`;
\* fetch throws when the webhook URL is undefined
Transcripts ==
    LET body == srv.req.body
        payload == TranscriptForwardData(body)
    IN  /\ srv.pc = "received" /\ srv.route = "transcripts"
        /\ srv.req.kind = "json"
        /\ srv' =
             IF ~TranscriptForwardOk(body)
             THEN Responded(<<>>, 400, [error |-> "Invalid payload"])
             ELSE IF Len(payload.v.transcript.v) > 2000
             THEN Responded(<<>>, 413, [error |-> "Transcript too large"])
             ELSE IF ~env.webhook
             THEN Responded(<<>>, 502, [error |-> "Failed to forward transcript"])
             ELSE Awaiting(payload)
        /\ last' = Other
        /\ UNCHANGED <<session, now, call, starting, timers, run, posts, env>>

\* the webhook answered, with response.ok or without it
WebhookResponded(ok) ==
    /\ srv.pc = "awaiting" /\ srv.route = "transcripts"
    /\ srv' = IF ok
              THEN Responded(srv.upstream, 200, [ok |-> TRUE])
              ELSE Responded(srv.upstream, 502, [error |-> "Failed to forward transcript"])
    /\ last' = [ev |-> "webhook", outcome |-> IF ok THEN "ok" ELSE "not-ok"]
    /\ UNCHANGED <<session, now, call, starting, timers, run, posts, env>>

\* fetch rejected: the webhook could not be reached
WebhookUnreachable ==
    /\ srv.pc = "awaiting" /\ srv.route = "transcripts"
    /\ srv' = Responded(srv.upstream, 502, [error |-> "Failed to forward transcript"])
    /\ last' = [ev |-> "webhook", outcome |-> "unreachable"]
    /\ UNCHANGED <<session, now, call, starting, timers, run, posts, env>>

(***************************************************************************)
(* The session under every event, with fragments of one role. A fragment   *)
(* that changes the transcript comes only once the effect has caught up    *)
(* with the change before it: the mirror lags the transcript by one change *)
(* at most.                                                                 *)
(***************************************************************************)
\* the clock advances by a step just inside or just outside the merge window
Steps == {MergeWindow - 1, MergeWindow}

SessionRoles == {"user"}

Next ==
    \/ \E d \in Steps : Tick(d) /\ now' <= MaxSessionNow
    \/ OnCallStart
    \/ OnCallEnd /\ Len(posts) < MaxInFlight
    \/ OnEndTimer
    \/ OnSpeechStart
    \/ OnSpeechEnd
    \/ OnError
    \/ \E role \in SessionRoles, raw \in RawTexts :
          /\ OnMessage(role, raw)
          /\ Len(transcript') <= MaxSessionLen
          /\ transcript' # transcript => transcriptRef = transcript
    \/ SyncTranscriptRef
    \/ StartCall /\ starting < MaxPending
    \/ StartResolved
    \/ StartRejected
    \/ EndCall
    \/ \E ok \in BOOLEAN : PostSettled(ok)

Spec == Init /\ [][Next]_vars
(***************************************************************************)
(* The session with time passing and timers firing: the clock goes past    *)
(* MaxSessionNow while a timer is pending, and no call is started after    *)
(* MaxSessionNow. A timer callback that is due runs, since every handler   *)
(* returns and the event loop then takes the next task; the clock reaches  *)
(* every instant.                                                           *)
(***************************************************************************)
\* message.transcript as delivered: blank, and an utterance
LiveTexts == {<<" ", "\t">>, <<"H", "i", "!">>}

TickLive ==
    \E d \in Steps :
        /\ Tick(d)
        /\ now' <= MaxSessionNow \/ (timers # <<>> /\ now < Head(timers))

NextLive ==
    \/ TickLive
    \/ OnCallStart
    \/ OnCallEnd /\ Len(posts) < MaxInFlight
    \/ OnEndTimer
    \/ OnSpeechStart
    \/ OnSpeechEnd
    \/ OnError
    \/ \E role \in SessionRoles, raw \in LiveTexts :
          /\ OnMessage(role, raw)
          /\ Len(transcript') <= MaxLiveLen
          /\ transcript' # transcript => transcriptRef = transcript
    \/ SyncTranscriptRef
    \/ StartCall /\ starting < MaxPending /\ now <= MaxSessionNow
    \/ StartResolved
    \/ StartRejected
    \/ EndCall
    \/ \E ok \in BOOLEAN : PostSettled(ok)

SpecLive ==
    /\ Init
    /\ [][NextLive]_vars
    /\ WF_vars(TickLive)
    /\ WF_vars(OnEndTimer)
(***************************************************************************)
(* The session under call-start, call-end and timer events in any order:    *)
(* the transport may report a start or an end whatever came before, so that *)
(* a call starts while the timer of an earlier call-end is pending.         *)
(***************************************************************************)
TransportStates == {"none", "starting", "active"}

NextAnyOrder ==
    \/ \E d \in Steps : Tick(d) /\ now' <= MaxNow
    \/ \E c \in TransportStates : TransportMoves(c)
    \/ OnCallStart
    \/ OnCallEnd /\ Len(posts) < MaxInFlight /\ Len(timers) < MaxTimers
    \/ OnEndTimer
    \/ StartCall /\ starting < MaxPending
    \/ StartResolved
    \/ StartRejected
    \/ EndCall
    \/ \E ok \in BOOLEAN : PostSettled(ok)

SpecAnyOrder == Init /\ [][NextAnyOrder]_vars
(***************************************************************************)
(* The transcript under fragments of both roles, over a longer time, while *)
(* no call is connected: the merge rule does not read the call's state.     *)
(***************************************************************************)
NextFragments ==
    \/ \E d \in Steps : Tick(d) /\ now' <= MaxNow
    \/ \E role \in Roles, raw \in RawTexts :
          /\ OnMessage(role, raw)
          /\ Len(transcript') <= MaxLen
    \/ StartCall /\ starting < MaxPending
    \/ StartResolved
    \/ StartRejected

SpecFragments == Init /\ [][NextFragments]_vars
(***************************************************************************)
(* The call-end handler on transcripts of up to MaxDedupLen utterances set  *)
(* MergeWindow apart (each fragment was appended), in a connected call      *)
(* whose transcript mirror is up to date.                                   *)
(***************************************************************************)
DedupTexts ==
    { <<"H", "i", "!">>,
      <<"h", "i">>,
      <<"H", "e", "l", "l", "o">>,
      <<"a", ",", "b">>,
      <<"a", " ", "b">>,
      <<"a", "b">>,
      <<"é">>,
      <<"ñ">> }

Utterances == [text : DedupTexts, role : Roles]

\* the transcript after the utterances of u arrived, MergeWindow apart
Spoken(u) ==
    [i \in 1..Len(u) |->
        [text |-> u[i].text, role |-> u[i].role, timestamp |-> MergeWindow * (i - 1)]]

InitDedup ==
    \E n \in 0..MaxDedupLen : \E u \in [1..n -> Utterances] :
        /\ transcript = Spoken(u)
        /\ transcriptRef = transcript
        /\ isConnected = TRUE
        /\ isSpeaking = FALSE
        /\ isListening = TRUE
        /\ error = NoError
        /\ callEnded = FALSE
        /\ callStartedAtRef = <<0>>
        /\ now = IF n = 0 THEN 0 ELSE MergeWindow * (n - 1)
        /\ call = "active"
        /\ starting = 0
        /\ timers = <<>>
        /\ last = Other
        /\ run = IF n = 0 THEN NoRun
                 ELSE [n |-> 1, text |-> u[n].text, role |-> u[n].role,
                       at |-> MergeWindow * (n - 1), base |-> n - 1]
        /\ posts = <<>>
        /\ env = [key |-> TRUE, webhook |-> TRUE]
        /\ srv = Idle

NextDedup == OnCallEnd

SpecDedup == InitDedup /\ [][NextDedup]_vars
(***************************************************************************)
(* The server under one request to either route, in every configuration of *)
(* its environment.                                                         *)
(***************************************************************************)
Entry(role, text, timestamp) ==
    JObj([text |-> JStr(text), role |-> JStr(role), timestamp |-> JNum(timestamp)])

\* n entries that the schema accepts
Entries(n) == [i \in 1..n |-> Entry("user", <<"h", "i">>, i)]

\* transcripts as a client may send them: empty, of entries the schema
\* accepts up to one past the size limit, and with an entry it rejects or an
\* entry with a member it does not name
RequestTranscripts ==
    { <<>>,
      Entries(1),
      Entries(2),
      Entries(2000),
      Entries(2001),
      <<Entry("", <<"h", "i">>, 1)>>,
      <<Entry("user", <<>>, 1)>>,
      <<JObj([text |-> JStr(<<"h", "i">>), role |-> JStr("user")])>>,
      <<Entry("user", <<"h", "i">>, 1),
        JObj([text |-> JStr(<<"h", "i">>), role |-> JStr("user"),
              timestamp |-> JStr(<<"2">>)])>>,
      Append(Entries(2000), Entry("", <<"h", "i">>, 2001)),
      <<JObj([text |-> JStr(<<"h", "i">>), role |-> JStr("assistant"),
              timestamp |-> JNum(1), confidence |-> JNum(1)])>> }

TranscriptBodies ==
    UNION { { JObj([transcript |-> JArr(t)]),
              JObj([transcript |-> JArr(t), assistantId |-> JStr(AssistantId),
                    startedAt |-> JNum(0), endedAt |-> JNum(1)]),
              JObj([transcript |-> JArr(t), callId |-> JNum(7)]),
              JObj([transcript |-> JArr(t), metadata |-> JObj([lang |-> JStr("en")])]),
              JObj([transcript |-> JArr(t), source |-> JStr("web")]) }
            : t \in RequestTranscripts }
    \cup { JObj(NoMembers), JArr(<<>>), JObj([transcript |-> JStr(<<"h", "i">>)]) }

PhoneNumbers ==
    { <<"5", "5", "5", "1", "2", "3", "4", "5", "6", "7">>,
      <<"1", "5", "5", "5", "1", "2", "3", "4", "5", "6", "7">>,
      <<"+", "4", "4", " ", "2", "0", " ", "7", "9", "4", "6", " ", "0", "9", "5", "8">>,
      <<"(", "5", "5", "5", ")", " ", "1", "2", "3", "-", "4", "5", "6", "7">>,
      <<"5", "5", "5", "-", "1", "2", "3", "4">>,
      <<"c", "a", "l", "l", " ", "m", "e", " ", "1", "2", "3">>,
      <<" ", " ", " ", " ", " ", " ", " ">>,
      <<"+", "-", "-", "-", "-", "-", "-">>,
      <<"1", "2", "3">>,
      <<>> }

Customers ==
    UNION { { JObj([number |-> JStr(n)]),
              JObj([number |-> JStr(n), name |-> JStr("Ada")]),
              JObj([number |-> JStr(n), name |-> JNum(1)]),
              JObj([number |-> JStr(n), note |-> JStr("vip")]) }
            : n \in PhoneNumbers }
    \cup { JObj(NoMembers), JObj([number |-> JNum(5551234)]), JStr(<<"5">>) }

OutboundBodies ==
    UNION { { JObj([phoneNumberId |-> JStr("pn-1"), assistantId |-> JStr(AssistantId),
                    customer |-> c]),
              JObj([phoneNumberId |-> JStr("pn-1"), assistantId |-> JStr(AssistantId),
                    customer |-> c, campaign |-> JStr("x")]),
              JObj([phoneNumberId |-> JStr(""), assistantId |-> JStr(AssistantId),
                    customer |-> c]),
              JObj([phoneNumberId |-> JStr("pn-1"), customer |-> c]) }
            : c \in Customers }
    \cup { JObj(NoMembers), JArr(<<>>),
           JObj([phoneNumberId |-> JStr("pn-1"), assistantId |-> JStr(AssistantId)]) }

\* bodies that express.json passes to the error handler
UnparsedKinds == {"malformed", "too-large"}

\* what vapi.calls.create resolves with: the call, or the results of a batch
CallResponses ==
    { JObj([id |-> JStr("call-1")]),
      JObj([results |-> JArr(<<JObj([id |-> JStr("call-2")])>>),
            errors |-> JArr(<<>>)]) }

InitServer ==
    /\ isConnected = FALSE
    /\ isSpeaking = FALSE
    /\ isListening = FALSE
    /\ transcript = <<>>
    /\ error = NoError
    /\ callEnded = FALSE
    /\ transcriptRef = <<>>
    /\ callStartedAtRef = <<>>
    /\ now = 0
    /\ call = "none"
    /\ starting = 0
    /\ timers = <<>>
    /\ last = Other
    /\ run = NoRun
    /\ posts = <<>>
    /\ env \in [key : BOOLEAN, webhook : BOOLEAN]
    /\ srv = Idle

NextServer ==
    \/ \E body \in TranscriptBodies : RequestArrives("transcripts", Parsed(body))
    \/ \E body \in OutboundBodies : RequestArrives("outbound-call", Parsed(body))
    \/ \E route \in {"transcripts", "outbound-call"}, kind \in UnparsedKinds :
          RequestArrives(route, Unparsed(kind))
    \/ ErrorHandler
    \/ OutboundCall
    \/ \E callResponse \in CallResponses : PlatformResolved(callResponse)
    \/ PlatformRejected
    \/ Transcripts
    \/ \E ok \in BOOLEAN : WebhookResponded(ok)
    \/ WebhookUnreachable

SpecServer == InitServer /\ [][NextServer]_vars
(***************************************************************************)
(* normalizeToE164Like on numbers of up to MaxDigits digits, plain or with  *)
(* punctuation, with and without a leading '+' and surrounding spaces.      *)
(***************************************************************************)
\* n digits, the first of them as given
DigitRun(n, first) == [i \in 1..n |-> IF i = 1 THEN first ELSE IF i % 2 = 0 THEN "5" ELSE "0"]

\* the digits with a dash behind the third
Dashed(d) == IF Len(d) > 3 THEN SubSeq(d, 1, 3) \o <<"-">> \o SubSeq(d, 4, Len(d)) ELSE d

PhoneInputs ==
    { lead \o d \o trail :
        lead \in {<<>>, <<"+">>, <<" ", "+">>, <<" ">>, <<"(">>},
        d \in UNION { {DigitRun(n, first), Dashed(DigitRun(n, first))} :
                        n \in 0..MaxDigits, first \in {"1", "5"} },
        trail \in {<<>>, <<" ">>} }
    \cup PhoneNumbers

InitNormalize ==
    /\ isConnected = FALSE
    /\ isSpeaking = FALSE
    /\ isListening = FALSE
    /\ transcript = <<>>
    /\ error = NoError
    /\ callEnded = FALSE
    /\ transcriptRef = <<>>
    /\ callStartedAtRef = <<>>
    /\ now = 0
    /\ call = "none"
    /\ starting = 0
    /\ timers = <<>>
    /\ \E input \in PhoneInputs : last = [ev |-> "input", input |-> input]
    /\ run = NoRun
    /\ posts = <<>>
    /\ env = [key |-> TRUE, webhook |-> TRUE]
    /\ srv = Idle

\* a call of normalizeToE164Like(input)
Normalize ==
    /\ last.ev = "input"
    /\ last' = [ev |-> "normalize", input |-> last.input,
                output |-> normalizeToE164Like(last.input)]
    /\ UNCHANGED <<session, now, call, starting, timers, run, posts, env, srv>>

NextNormalize == Normalize

SpecNormalize == InitNormalize /\ [][NextNormalize]_vars
(***************************************************************************)
(* The relay under the request that the call-end handler posts, for calls  *)
(* of up to MaxRelayLen utterances, with or without a role.                 *)
(***************************************************************************)
\* String(message.role ?? "") of a message with a role and of one without
RelayRoles == {"user", ""}

RelayUtterances == [text : {<<"H", "i", "!">>, <<"o", "k">>}, role : RelayRoles]

InitRelay ==
    \E n \in 0..MaxRelayLen : \E u \in [1..n -> RelayUtterances] :
        /\ transcript = Spoken(u)
        /\ transcriptRef = transcript
        /\ isConnected = TRUE
        /\ isSpeaking = FALSE
        /\ isListening = TRUE
        /\ error = NoError
        /\ callEnded = FALSE
        /\ callStartedAtRef = <<0>>
        /\ now = IF n = 0 THEN 0 ELSE MergeWindow * (n - 1)
        /\ call = "active"
        /\ starting = 0
        /\ timers = <<>>
        /\ last = Other
        /\ run = IF n = 0 THEN NoRun
                 ELSE [n |-> 1, text |-> u[n].text, role |-> u[n].role,
                       at |-> MergeWindow * (n - 1), base |-> n - 1]
        /\ posts = <<>>
        /\ env \in [key : BOOLEAN, webhook : BOOLEAN]
        /\ srv = Idle

NextRelay ==
    \/ OnCallEnd
    \/ PostArrives
    \/ Transcripts
    \/ \E ok \in BOOLEAN : WebhookResponded(ok)
    \/ WebhookUnreachable

SpecRelay == InitRelay /\ [][NextRelay]_vars
(***************************************************************************)
(* Properties of the deduplication (SpecDedup).                             *)
(***************************************************************************)
\* the k-th smallest member of the set of indices K
Kth(K, k) == CHOOSE i \in K : Cardinality({j \in K : j <= i}) = k

\* the subsequence of s at the indices K, in order
Pick(s, K) == [k \in 1..Cardinality(K) |-> s[Kth(K, k)]]

RolesTexts(s) == [i \in 1..Len(s) |-> <<s[i].role, s[i].text>>]

\* the indices of s whose key no earlier message of s has
FirstOfKey(s) ==
    {i \in 1..Len(s) : \A j \in 1..(i - 1) : key(s[j]) # key(s[i])}

ExampleIn ==
    << <<"user", <<"H", "i", "!">> >>,
       <<"assistant", <<"H", "e", "l", "l", "o">> >>,
       <<"user", <<"h", "i">> >> >>

ExampleOut ==
    << <<"user", <<"H", "i", "!">> >>,
       <<"assistant", <<"H", "e", "l", "l", "o">> >> >>

\* C8: the transcript of the payload is the subsequence of the deduplicated
\* sequence made of exactly the messages whose (role, normalized text) key no
\* earlier message has, each as it was (text not normalized, timestamp kept);
\* [{user,"Hi!"},{assistant,"Hello"},{user,"hi"}] gives
\* [{user,"Hi!"},{assistant,"Hello"}].
C8_FirstOccurrenceWins ==
    last.ev = "call-end" =>
        /\ last.payload.transcript = Pick(transcriptRef, FirstOfKey(transcriptRef))
        /\ RolesTexts(transcriptRef) = ExampleIn
              => RolesTexts(last.payload.transcript) = ExampleOut

C8_Witness ==
    /\ last.ev = "call-end"
    /\ RolesTexts(transcriptRef) = ExampleIn
    /\ RolesTexts(last.payload.transcript) = ExampleOut

\* C9: deduplicating the deduplicated transcript of a payload gives it back.
C9_Idempotent ==
    last.ev = "call-end" =>
        deduplicateTranscript(last.payload.transcript) = last.payload.transcript

\* a payload from which the deduplication removed something
C9_Witness ==
    /\ last.ev = "call-end"
    /\ Len(last.payload.transcript) >= 2
    /\ Len(last.payload.transcript) < Len(transcriptRef)
    /\ deduplicateTranscript(last.payload.transcript) = last.payload.transcript

\* letters outside ASCII that the texts of the model use
NonAsciiLetter == {"é", "ñ"}

IsWordChar(c) == LowerChar(c) \in AsciiLower \cup AsciiDigit \cup NonAsciiLetter

\* the words of a text: its maximal runs of letters and digits, in lower case
RECURSIVE SplitWords(_, _, _)
SplitWords(s, word, words) ==
    LET closed == IF word = <<>> THEN words ELSE Append(words, word)
    IN  IF s = <<>> THEN closed
        ELSE IF IsWordChar(Head(s))
             THEN SplitWords(Tail(s), Append(word, LowerChar(Head(s))), words)
             ELSE SplitWords(Tail(s), <<>>, closed)

Words(text) == SplitWords(text, <<>>, <<>>)

\* the indices of s that no earlier message of the same role and words precedes
FirstOfWords(s) ==
    {i \in 1..Len(s) :
        \A j \in 1..(i - 1) :
            s[j].role # s[i].role \/ Words(s[j].text) # Words(s[i].text)}

\* C10: the deduplication drops a message exactly when an earlier message has
\* the same role and the same words (texts that differ only in punctuation and
\* letter case), and keeps every message that differs from all earlier ones in
\* role or in words, whether the words are set apart by punctuation or by a
\* space and whether or not their letters are ASCII.
C10_SameWordsCollapse ==
    last.ev = "call-end" =>
        last.payload.transcript = Pick(transcriptRef, FirstOfWords(transcriptRef))
(***************************************************************************)
(* Properties of the merge rule (SpecFragments).                            *)
(***************************************************************************)
\* the step delivers a fragment whose trimmed text is not empty
Fragment == last'.ev = "message" /\ last'.text # <<>>

\* C1: while a run of fragments of one role lasts, each less than MergeWindow
\* after the one before, and the run began on an empty transcript, behind a
\* message of another role, or MergeWindow or more after the last message, the
\* transcript holds one message for the run, behind the messages it held
\* before: the run's role, the trimmed text of its latest fragment alone, and
\* that fragment's time.
C1_OneMessagePerRun ==
    run.n > 0 =>
        /\ Len(transcript) = run.base + 1
        /\ Last(transcript) =
              [text |-> run.text, role |-> run.role, timestamp |-> run.at]
        /\ last.ev = "message" /\ last.text # <<>> => run.text = last.text

\* a run of three fragments or more, longer than the window, behind a message
\* of the other role
C1_Witness ==
    /\ run.n >= 3
    /\ run.base = 1
    /\ transcript[1].role # run.role
    /\ run.at - transcript[1].timestamp > MergeWindow
    /\ Len(transcript) = 2
    /\ transcript[2].text = run.text

\* C2: a fragment of the last message's role that comes MergeWindow or more
\* after that message's timestamp is appended, the transcript before it
\* unchanged; one that comes MergeWindow - 1 after it replaces the last
\* message and the length stays.
C2_WindowBoundary ==
    [][ Fragment /\ transcript # <<>> /\ Last(transcript).role = last'.role =>
          /\ now - Last(transcript).timestamp >= MergeWindow =>
                transcript' = Append(transcript,
                    [text |-> last'.text, role |-> last'.role, timestamp |-> now])
          /\ now - Last(transcript).timestamp = MergeWindow - 1 =>
                /\ Len(transcript') = Len(transcript)
                /\ Last(transcript') =
                      [text |-> last'.text, role |-> last'.role, timestamp |-> now]
      ]_vars

\* two messages of one role exactly MergeWindow apart, the second just appended
C2_Witness ==
    /\ last.ev = "message"
    /\ Len(transcript) >= 2
    /\ transcript[Len(transcript) - 1].role = Last(transcript).role
    /\ Last(transcript).timestamp
           = transcript[Len(transcript) - 1].timestamp + MergeWindow
    /\ Last(transcript).timestamp = now
    /\ Last(transcript).text = last.text

\* C3: a fragment whose role is not the last message's role is appended
\* whatever the time since that message, the transcript before it unchanged.
C3_OtherRoleAppends ==
    [][ Fragment /\ transcript # <<>> /\ Last(transcript).role # last'.role =>
          transcript' = Append(transcript,
              [text |-> last'.text, role |-> last'.role, timestamp |-> now])
      ]_vars

\* two messages of different roles with the same timestamp, the second just
\* appended
C3_Witness ==
    /\ last.ev = "message"
    /\ Len(transcript) >= 2
    /\ transcript[Len(transcript) - 1].role # Last(transcript).role
    /\ Last(transcript).timestamp = transcript[Len(transcript) - 1].timestamp
    /\ Last(transcript).role = last.role
    /\ Last(transcript).text = last.text

\* the text is empty or made of white space only
IsBlank(raw) == \A i \in 1..Len(raw) : raw[i] \in WhiteSpace

\* C7: a fragment whose text is empty or white space only changes nothing of
\* the session: not the transcript, its mirror, the flags, the error or the
\* recorded start.
C7_BlankIsNoOp ==
    [][ last'.ev = "message" /\ IsBlank(last'.raw) =>
          UNCHANGED <<session, now, call, starting, timers>>
      ]_vars

\* a fragment of white space was delivered to a transcript that holds messages
C7_Witness ==
    /\ last.ev = "message"
    /\ last.raw # <<>>
    /\ IsBlank(last.raw)
    /\ transcript # <<>>
    /\ last.role # Last(transcript).role
(***************************************************************************)
(* Properties of the session (Spec).                                        *)
(***************************************************************************)
\* C4: the transcript of the payload posted by call-end is the deduplication
\* of the transcript accumulated from the fragments delivered before it, also
\* when the last of them came right before the call-end.
C4_PayloadIsAccumulated ==
    last.ev = "call-end" =>
        last.payload.transcript = deduplicateTranscript(transcript)

\* C5: the speaking flag and the listening flag are never both true.
C5_SpeakingXorListening == ~(isSpeaking /\ isListening)

\* C6: a fragment leaves every message but the last as it was and in place,
\* replacing the last message or appending behind it; startCall aside, no
\* other step changes the transcript.
C6_AppendOnly ==
    [][ /\ last'.ev = "message" =>
              /\ Len(transcript') \in {Len(transcript), Len(transcript) + 1}
              /\ \A i \in 1..(Len(transcript) - 1) : transcript'[i] = transcript[i]
              /\ Len(transcript') = Len(transcript) + 1 =>
                    SubSeq(transcript', 1, Len(transcript)) = transcript
        /\ last'.ev \notin {"message", "startCall"} => transcript' = transcript
      ]_vars

\* the second message was replaced in place behind a first one
C6_Witness ==
    /\ last.ev = "message"
    /\ last.text # <<>>
    /\ Len(transcript) = 2
    /\ run.n >= 2
    /\ run.base = 1
    /\ isConnected

(***************************************************************************)
(* The relay and the outbound call.                                         *)
(***************************************************************************)
\* C11: the relay accepts every payload that the call-end handler posts: it
\* does not answer it with 400 and, with the webhook configured, it sends it
\* on. Violated: the schema rejects the payload of a call without utterances
\* and the payload with a message whose role is "".
C11_PostAccepted ==
    (srv.route = "transcripts" /\ srv.pc \in {"awaiting", "done"}) =>
        /\ \A i \in 1..Len(srv.res) : srv.res[i].status # 400
        /\ env.webhook => srv.upstream # <<>>

\* the status that answers a request to /api/transcripts whose handling ends
\* with this step; a body that could not be read counts as one that fails
\* the schema
TranscriptsStatus ==
    LET req == srv'.req
    IN  IF req.kind # "json" \/ ~TranscriptForwardOk(req.body) THEN 400
        ELSE IF Len(req.body.v.transcript.v) > 2000 THEN 413
        ELSE IF env.webhook /\ last'.ev = "webhook" /\ last'.outcome = "ok" THEN 200
        ELSE 502

\* this step handles a request to /api/transcripts as the claim says: one
\* answer, none before the handling ends, with the status of the rule; an
\* empty transcript gets 400, 2001 entries get 413 and 2000 entries are
\* forwarded
TranscriptsAnswers ==
    LET body == srv'.req.body
        only(t) == body = JObj([transcript |-> JArr(t)])
    IN  /\ Len(srv'.res) = IF srv'.pc = "done" THEN 1 ELSE 0
        /\ (srv'.pc = "done" /\ srv.pc # "done") =>
              /\ srv'.res[1].status = TranscriptsStatus
              /\ only(<<>>) => srv'.res[1].status = 400
              /\ only(Entries(2001)) => srv'.res[1].status = 413
        /\ (srv.pc = "received" /\ only(Entries(2000)) /\ env.webhook) =>
              /\ srv'.pc = "awaiting"
              /\ Len(srv'.upstream) = 1
              /\ Len(srv'.upstream[1].v.transcript.v) = 2000

C13_ForwardedVerbatim ==
    (srv.route = "transcripts" /\ srv.upstream # <<>>) =>
        srv.upstream = <<srv.req.body>>

\* the index of the first and of the last character that is not white space
FirstInk(s) == CHOOSE i \in 1..Len(s) : s[i] \notin WhiteSpace /\ \A j \in 1..(i - 1) : s[j] \in WhiteSpace
LastInk(s) == CHOOSE i \in 1..Len(s) : s[i] \notin WhiteSpace /\ \A j \in (i + 1)..Len(s) : s[j] \in WhiteSpace

\* the input without the white space around it
Trimmed(s) ==
    IF \A i \in 1..Len(s) : s[i] \in WhiteSpace THEN <<>>
    ELSE SubSeq(s, FirstInk(s), LastInk(s))

\* the digits of s, in order
RECURSIVE DigitsOf(_)
DigitsOf(s) ==
    IF s = <<>> THEN <<>>
    ELSE IF Head(s) \in {"0", "1", "2", "3", "4", "5", "6", "7", "8", "9"}
    THEN <<Head(s)>> \o DigitsOf(Tail(s))
    ELSE DigitsOf(Tail(s))

Invalid == <<>>

\* the normalised number as the claim gives it
E164(input) ==
    LET t == Trimmed(input)
        d == DigitsOf(t)
    IN  IF t # <<>> /\ t[1] = "+"
        THEN IF d = <<>> THEN Invalid ELSE <<"+">> \o d
        ELSE IF Len(d) = 11 /\ d[1] = "1" THEN <<"+">> \o d
        ELSE IF Len(d) = 10 THEN <<"+", "1">> \o d
        ELSE IF Len(d) >= 7 /\ Len(d) <= 15 THEN <<"+">> \o d
        ELSE Invalid

US5551234567 == <<"+", "1", "5", "5", "5", "1", "2", "3", "4", "5", "6", "7">>

\* C15: normalizeToE164Like returns, for a trimmed input that starts with
\* '+', '+' and all its digits, or invalid when it has none; otherwise
\* '+<digits>' for 11 digits that start with 1, '+1<digits>' for 10 digits,
\* '+<digits>' for 7 to 15 digits, and invalid for anything else; with the
\* claim's five examples.
C15_Normalized ==
    last.ev = "normalize" =>
        /\ last.output = E164(last.input)
        /\ last.input = <<"5", "5", "5", "1", "2", "3", "4", "5", "6", "7">> =>
              last.output = US5551234567
        /\ last.input = <<"1", "5", "5", "5", "1", "2", "3", "4", "5", "6", "7">> =>
              last.output = US5551234567
        /\ last.input = <<"+", "4", "4", " ", "2", "0", " ", "7", "9", "4", "6", " ",
                          "0", "9", "5", "8">> =>
              last.output = <<"+", "4", "4", "2", "0", "7", "9", "4", "6", "0", "9", "5", "8">>
        /\ last.input \in {<<"1", "2", "3">>, <<>>} => last.output = Invalid

\* ten digits with punctuation and spaces around them got the country code
C15_Witness ==
    /\ last.ev = "normalize"
    /\ last.input = <<" ", "1", "5", "0", "-", "5", "0", "5", "0", "5", "0", "5", " ">>
    /\ last.output = <<"+", "1", "1", "5", "0", "5", "0", "5", "0", "5", "0", "5">>

\* the status that answers a request to /api/vapi/outbound-call whose
\* handling ends with this step; a body that could not be read counts as
\* one that fails the schema
OutboundStatus ==
    LET req == srv'.req
    IN  IF ~env.key THEN 500
        ELSE IF \/ req.kind # "json"
                \/ ~OutboundCallOk(req.body)
                \/ E164(req.body.v.customer.v.number.v) = Invalid
        THEN 400
        ELSE IF last'.ev = "platform" /\ last'.outcome = "resolved" THEN 201
        ELSE 502

\* this step handles a request to /api/vapi/outbound-call as the claim
\* says: one answer, none before the handling ends, with the status of the
\* rule; no platform call before a 500 or a 400 and one at most otherwise,
\* with the normalised number; the platform's identifier in the 201 and the
\* fixed message in the 502
OutboundAnswers ==
    LET body == srv'.req.body
        answer == srv'.res[1]
    IN  /\ Len(srv'.res) = IF srv'.pc = "done" THEN 1 ELSE 0
        /\ Len(srv'.upstream) <= 1
        /\ srv'.upstream # <<>> =>
              srv'.upstream[1].v.customer.v.number = JStr(E164(body.v.customer.v.number.v))
        /\ (srv'.pc = "done" /\ srv.pc # "done") =>
              /\ answer.status = OutboundStatus
              /\ answer.status \in {500, 400} => srv'.upstream = <<>>
              /\ answer.status = 201 =>
                    /\ Len(srv'.upstream) = 1
                    /\ answer.body.id \in {JStr("call-1"), JStr("call-2")}
                    /\ answer.body.id = JStr("call-1") <=> Has(answer.body.call.v, "id")
              /\ answer.status = 502 => answer.body = [error |-> "Failed to create call"]
              /\ (env.key /\ body = JObj([phoneNumberId |-> JStr("pn-1"),
                                           customer |-> JObj([number |-> JStr(US5551234567)])]))
                    => answer.status = 400

ConnState ==
    IF isConnected THEN "connected"
    ELSE IF callEnded THEN "ended"
    ELSE "idle"

C17_OverlayClears ==
    callEnded ~> (last.ev = "end-timer" /\ ~callEnded /\ ConnState = "idle")

\* the timer has fired and hidden the overlay while the POST of the
\* transcript is still in flight
C17_Witness ==
    /\ last.ev = "end-timer"
    /\ ~callEnded
    /\ posts # <<>>
    /\ now >= EndDelay

\* C18: when a timer set at a call-end fires and stops the transport, no
\* call-start has come since that call-end: it is the only timer pending,
\* the overlay that the call-end showed is still shown (a call-start would
\* have hidden it), the session is not connected, and the transport holds
\* no call for the stop to end.
C18_StopEndsNoLaterCall ==
    [][last'.ev = "end-timer" =>
          /\ Len(timers) = 1
          /\ callEnded /\ ~isConnected
          /\ call = "none" /\ call' = "none"
      ]_vars

\* the timer of a call in which something was said has fired: the transport
\* was stopped with no call to end
C18_Witness ==
    /\ last.ev = "end-timer"
    /\ call = "none"
    /\ ~isConnected
    /\ transcript # <<>>
    /\ error = NoError

\* C19: the transcript posted at a call-end holds no message of a fragment
\* delivered before the most recent startCall. Each of its messages is a
\* message of the transcript accumulated since that startCall, or the
\* earlier text of the run that its last message merges; when no fragment
\* has come since the startCall it is empty.
C19_OnlyThisCall ==
    last.ev = "call-end" =>
        /\ run = NoRun => last.payload.transcript = <<>>
        /\ \A i \in 1..Len(last.payload.transcript) :
              LET m == last.payload.transcript[i]
              IN  \/ \E j \in 1..Len(transcript) : transcript[j] = m
                  \/ run.n >= 2 /\ m.role = run.role /\ m.timestamp <= run.at

\* a call in which nothing was said ends and posts an empty transcript,
\* while the post of the call before it, which carries an utterance, is
\* still in flight
C19_Witness ==
    /\ last.ev = "call-end"
    /\ last.payload.transcript = <<>>
    /\ Len(posts) = 2
    /\ posts[1].v.transcript.v # <<>>
    /\ posts[2].v.transcript.v = <<>>

\* C20: when the transport rejects the start, startCall sets the error to
\* the fixed start-failure message and leaves the connection state as it
\* was, which is idle; it does not set the listening flag.
C20_RejectedStart ==
    [][last'.ev = "start-rejected" =>
          /\ error' = StartError
          /\ isConnected' = isConnected /\ callEnded' = callEnded
          /\ ConnState' = "idle"
          /\ isListening' = isListening
      ]_vars

\* a start was rejected while the session was idle and not listening
C20_Witness ==
    /\ last.ev = "start-rejected"
    /\ error = StartError
    /\ ConnState = "idle"
    /\ ~isListening
    /\ starting = 0

(***************************************************************************)
(* The times a posted payload carries.                                      *)
(***************************************************************************)
\* C21: the payload posted at a call-end has startedAt equal to the time the
\* call-start of that call recorded and endedAt equal to the time of the
\* call-end, with startedAt <= endedAt. The call-start handler records the
\* time, no handler but call-start and call-end changes the record, and the
\* call-end handler finds it set and leaves it empty, so that the time a
\* payload carries was recorded after the call-end before it.
C21_StartAndEnd ==
    [][/\ last'.ev = "call-start" => callStartedAtRef' = <<now'>>
       /\ last'.ev \notin {"call-start", "call-end"} =>
              callStartedAtRef' = callStartedAtRef
       /\ last'.ev = "call-end" =>
              LET body == posts'[Len(posts')].v
              IN  /\ callStartedAtRef # <<>>
                  /\ "startedAt" \in DOMAIN body
                  /\ body.startedAt = JNum(callStartedAtRef[1])
                  /\ body.endedAt = JNum(now')
                  /\ body.startedAt.v <= body.endedAt.v
                  /\ callStartedAtRef' = <<>>
      ]_vars

\* a second call has ended while the post of the first is in flight: its
\* payload carries a start later than the end of the first call, and the
\* record of the start is empty again
C21_Witness ==
    /\ last.ev = "call-end"
    /\ Len(posts) = 2
    /\ posts[2].v.startedAt.v > posts[1].v.endedAt.v
    /\ posts[2].v.endedAt.v >= posts[2].v.startedAt.v
    /\ callStartedAtRef = <<>>

(***************************************************************************)
(* The POST of the transcript is detached.                                  *)
(***************************************************************************)
\* C22: the POST issued at a call-end is detached. Its settling, fulfilled
\* or rejected, changes no state of the session, no timer and nothing of the
\* transport, and issues no other POST; a POST is issued by a call-end only,
\* one for each; and the timer callback that hides the overlay and stops the
\* transport neither waits for a POST nor changes one, so the two come in
\* either order.
C22_Detached ==
    [][/\ last'.ev = "post-settled" =>
              /\ session' = session
              /\ timers' = timers /\ call' = call /\ starting' = starting
              /\ posts' = Tail(posts)
       /\ last'.ev = "call-end" =>
              /\ Len(posts') = Len(posts) + 1
              /\ SubSeq(posts', 1, Len(posts)) = posts
       /\ Len(posts') > Len(posts) => last'.ev = "call-end"
       /\ last'.ev = "end-timer" => posts' = posts
       /\ (timers # <<>> /\ Head(timers) <= now) => ENABLED OnEndTimer
       /\ posts # <<>> => ENABLED PostSettled(FALSE)
      ]_vars

\* the POST of a call in which something was said was rejected while the
\* overlay was still shown and the timer pending: the session shows no error
\* and no POST is in flight
C22_Witness ==
    /\ last.ev = "post-settled" /\ ~last.ok
    /\ callEnded /\ ~isConnected
    /\ timers # <<>>
    /\ transcript # <<>>
    /\ error = NoError
    /\ posts = <<>>

(***************************************************************************)
(* The connection state is one of three.                                    *)
(***************************************************************************)
\* C23: the connected flag and the overlay flag are never both true, under
\* call-start, call-end and timer events in any order; the connection state
\* is connected exactly when the connected flag is set, ended exactly when
\* the overlay flag is set, and idle exactly when neither is.
C23_OneConnState ==
    /\ ~(isConnected /\ callEnded)
    /\ ConnState = "connected" <=> isConnected
    /\ ConnState = "ended" <=> callEnded
    /\ ConnState = "idle" <=> (~isConnected /\ ~callEnded)

\* the timer of an earlier call-end has fired while a later call is
\* connected, and the timer of another call-end is still pending
C23_Witness ==
    /\ last.ev = "end-timer"
    /\ isConnected /\ ~callEnded
    /\ timers # <<>>
    /\ now >= EndDelay

(***************************************************************************)
(* The timestamps of a transcript.                                          *)
(***************************************************************************)
\* C24: with a clock that does not go back, the timestamps of every
\* transcript are non-decreasing in sequence order, and two adjacent
\* messages of the same role have timestamps at least MergeWindow apart.
C24_TimestampsOrdered ==
    \A i \in 1..(Len(transcript) - 1) :
        /\ transcript[i].timestamp <= transcript[i + 1].timestamp
        /\ transcript[i].role = transcript[i + 1].role =>
               transcript[i + 1].timestamp - transcript[i].timestamp >= MergeWindow

\* a transcript with two adjacent messages of one role exactly MergeWindow
\* apart, and two adjacent messages of different roles closer than that, the
\* last message being a merge of several fragments
C24_Witness ==
    /\ \E i \in 1..(Len(transcript) - 1) :
          /\ transcript[i].role = transcript[i + 1].role
          /\ transcript[i + 1].timestamp - transcript[i].timestamp = MergeWindow
    /\ \E i \in 1..(Len(transcript) - 1) :
          /\ transcript[i].role # transcript[i + 1].role
          /\ transcript[i + 1].timestamp - transcript[i].timestamp < MergeWindow
    /\ run.n >= 2
    /\ last.ev = "message"

====
